---- MODULE Spec2Model ----
(***************************************************************************)
(* The admin panel of the portfolio (src/admin/js/admin.js): one in-memory *)
(* configuration document, edited by asynchronous event handlers, and      *)
(* pushed whole to the backend (ConfigStore) by PUT /api/config.           *)
(*                                                                         *)
(* JavaScript runs one handler at a time up to its next await, so every    *)
(* action below is the code of one handler between two awaits.  A handler  *)
(* that is waiting for a reply is a task with a pc; several may wait at    *)
(* once, listed in the order of their requests.  Array indices are 1-based *)
(* here: index i of the source is i + 1, and findIndex's -1 is 0.          *)
(*                                                                         *)
(* The backend is not part of these sources.  ConfigStore is taken from    *)
(* the specification: a PUT that is answered 2xx has replaced the stored   *)
(* document, a PUT that fails has not.                                     *)
(***************************************************************************)
EXTENDS Integers, Sequences, FiniteSets, TLC

\* ------------------------------------------------------------------ bounds
MaxEvents    == 3  \* events (clicks, submissions) of a run
MaxSeqEvents == 4  \* events of a run in which the handlers run one at a time
MaxLateEvents == 2 \* events of a run that starts with a second deletion in flight
MaxTwinEvents == 2 \* events of a run that starts with two projects of one id
MaxInboxEvents == 2 \* events of a run that starts with a message posted after the load
MaxContactEvents == 4 \* events (typing, submissions) of a visitor on the contact form
MaxCharIndex == 20 \* the typewriter's charIndex is followed up to here

\* ------------------------------------------------------------ input domains
Types    == {"project", "skill", "experience", "education"}
UploadedPath == "img1"          \* the path POST /api/upload answers with

Null == [null |-> TRUE]         \* JavaScript's null
NoPath == ""                    \* uploadedImagePath when nothing was uploaded

\* The header `Authorization: Bearer ${localStorage.getItem('admin_token')}` of
\* a request: with the stored token, or "Bearer null" when there is none.
Authorization(tok) == [bearer |-> IF tok THEN "token" ELSE "null"]

\* --------------------------------------------------------------- documents
\* The collection each item type is kept in.
collections(type) ==
    CASE type = "project"    -> "projects"
      [] type = "skill"      -> "skills"
      [] type = "experience" -> "experience"
      [] type = "education"  -> "education"
      [] type = "message"    -> "messages"

\* `doc[c] || []`: an absent collection reads as the empty list.
Coll(doc, c) == IF c \in DOMAIN doc THEN doc[c] ELSE <<>>

\* doc with collection c set to items (created when absent).
WithColl(doc, c, items) ==
    [k \in DOMAIN doc \cup {c} |-> IF k = c THEN items ELSE doc[k]]

\* A search that returns the last match, 0 for none.
findLastIndex(items, id) ==
    IF \E i \in 1..Len(items) : items[i].id = id
    THEN CHOOSE i \in 1..Len(items) :
            /\ items[i].id = id
            /\ \A j \in (i + 1)..Len(items) : items[j].id # id
    ELSE 0

\* Array.prototype.findIndex(item => item.id === id): the first match, 0 for none.
findIndex(items, id) ==
    IF \E i \in 1..Len(items) : items[i].id = id
    THEN CHOOSE i \in 1..Len(items) :
            /\ items[i].id = id
            /\ \A j \in 1..(i - 1) : items[j].id # id
    ELSE 0

\* Array.prototype.splice(index), the count left out: everything from index on
\* is removed.
spliceRest(items, index) ==
    IF index \in 1..Len(items)
    THEN [i \in 1..(index - 1) |-> items[i]]
    ELSE items

\* Array.prototype.splice(index, 1): an index past the end removes nothing.
splice(items, index) ==
    IF index \in 1..Len(items)
    THEN [i \in 1..(Len(items) - 1) |-> IF i < index THEN items[i] ELSE items[i + 1]]
    ELSE items

\* The patch put in the item's place, nothing of the item kept.
Replace(old, patch) == patch

\* { ...old, ...patch }: the patch's fields win, the others are kept.
Spread(old, patch) ==
    [k \in DOMAIN old \cup DOMAIN patch |->
        IF k \in DOMAIN patch THEN patch[k] ELSE old[k]]

\* parseInt of the range input's value.
parseInt(s) == CASE s = "50" -> 50 [] s = "80" -> 80

\* An id left empty.
noId(type, time) == <<>>

\* `${type}_${Date.now()}`
NewId(type, time) == <<type, time>>

\* The document the backend holds when the panel is opened.
InitialDoc ==
    [ projects   |-> << [id |-> NewId("project", 0), title |-> "a",
                         featured |-> FALSE, image |-> "img0"],
                        [id |-> NewId("project", -1), title |-> "a",
                         featured |-> TRUE] >>,
      skills     |-> << [id |-> NewId("skill", 0), name |-> "a", level |-> 50] >>,
      experience |-> << [id |-> NewId("experience", 0), title |-> "a",
                         responsibilities |-> "r"] >>,
      messages   |-> << [id |-> NewId("message", 0), subject |-> "s", read |-> FALSE],
                        [id |-> NewId("message", 1), subject |-> "s", read |-> FALSE] >>,
      personal_info |-> [name |-> "a", profile_image |-> "img0"],
      social_links  |-> [github |-> "a", facebook |-> "a"] ]

\* ------------------------------------------------------------------- forms
\* What a user may have entered in the modal form of a type when it is
\* submitted: the text field, for a project the featured checkbox and whether
\* a file is chosen, for a skill the level.  One filling of the fields,
\* different from the items of InitialDoc, and for a project with and without
\* a file.
FormInputs(type) ==
    CASE type = "project" ->
            {[text |-> "b", featured |-> TRUE, file |-> u] : u \in BOOLEAN}
      [] type = "skill" -> {[text |-> "b", level |-> "80", file |-> FALSE]}
      [] OTHER -> {[text |-> "b", file |-> FALSE]}

\* The name of the text field of each form.
TextField(type) ==
    CASE type = "skill" -> "name" [] type = "education" -> "degree" [] OTHER -> "title"

\* The submit handler's `data` before the id is set: every form field but the
\* file, the level parsed, featured true or false for a project, the image
\* path when one was uploaded.
FormData(type, in, uploadedImagePath) ==
    LET base == (TextField(type) :> in.text)
        lvl  == IF type = "skill" THEN ("level" :> parseInt(in.level)) ELSE <<>>
        feat == IF type = "project" THEN ("featured" :> in.featured) ELSE <<>>
        img  == IF uploadedImagePath # NoPath THEN ("image" :> uploadedImagePath) ELSE <<>>
    IN  base @@ lvl @@ feat @@ img

\* ----------------------------------------------------------------- renderer
\* The badge as the page's markup has it before updateStats first runs.
InitialBadge == [text |-> 0, hidden |-> TRUE]

\* An updateStats whose badge counts every message.
updateStatsAll(old, doc) ==
    LET msgs == Coll(doc, "messages")
    IN  [ projects |-> Len(Coll(doc, "projects")),
          skills   |-> Len(Coll(doc, "skills")),
          messages |-> Len(msgs),
          badge    |-> IF Len(msgs) > 0
                       THEN [text |-> Len(msgs), hidden |-> FALSE]
                       ELSE [old.badge EXCEPT !.hidden = TRUE] ]

\* updateStats: the dashboard counters and the unread badge, old being what
\* the dashboard showed.  The badge gets the count and is shown when a message
\* is unread; otherwise it is hidden, its text left as it was.
updateStats(old, doc) ==
    LET msgs == Coll(doc, "messages")
        unreadCount == Cardinality({i \in 1..Len(msgs) : ~msgs[i].read})
    IN  [ projects |-> Len(Coll(doc, "projects")),
          skills   |-> Len(Coll(doc, "skills")),
          messages |-> Len(msgs),
          badge    |-> IF unreadCount > 0
                       THEN [text |-> unreadCount, hidden |-> FALSE]
                       ELSE [old.badge EXCEPT !.hidden = TRUE] ]

Sections == {"projects", "skills", "experience", "education", "messages"}

\* populateX for every section, and updateStats: what init renders.
RenderAll(doc) ==
    [k \in Sections \cup {"stats"} |->
        IF k = "stats" THEN updateStats([badge |-> InitialBadge], doc) ELSE Coll(doc, k)]

\* refreshSection(type): the list of that type is drawn again from doc.
refreshSection(shown, type, doc) ==
    [shown EXCEPT ![collections(type)] = Coll(doc, collections(type))]

\* ------------------------------------------------------------------- state
VARIABLES
    config,         \* this.config: the in-memory document
    store,          \* the document ConfigStore holds
    images,         \* the image paths the backend holds
    token,          \* whether localStorage holds admin_token
    page,           \* "admin", or "login" after a redirect
    modal,          \* the type whose form the modal shows, "none" when hidden
    editingItem,    \* this.editingItem
    deleteCallback, \* this.deleteCallback: Null or the [type, id] it is bound to
    rendered,       \* what each list and the dashboard show
    tasks,          \* the handlers waiting for a reply, in the order of their requests
    now,            \* the last value Date.now() gave
    left,           \* events the run may still take
    alone,          \* whether an event waits until no handler is waiting
    last            \* the last step taken: what ran, with what, and what it showed

vars == <<config, store, images, token, page, modal, editingItem, deleteCallback,
          rendered, tasks, now, left, alone, last>>

NoModal == modal = "none" /\ deleteCallback = Null

\* tasks without the i-th.
Others(i) == [k \in 1..(Len(tasks) - 1) |-> IF k < i THEN tasks[k] ELSE tasks[k + 1]]

\* The record of a step: ev is "call" when a handler changed the document and
\* called saveConfig, "return" when a handler went on after the reply to its
\* PUT, "noop" when a handler found no item, "await" when it sent an upload or
\* an image delete, "abort" when it gave up; saved is what saveConfig
\* returned ("pending" while the PUT is in flight).
Step(ev, op, type, arg, saved, status, toasts) ==
    [ev |-> ev, op |-> op, type |-> type, arg |-> arg, saved |-> saved,
     status |-> status, toasts |-> toasts]

Quiet(ev) == Step(ev, "none", "none", <<>>, "none", "none", <<>>)

Start ==
    /\ config = InitialDoc
    /\ store = InitialDoc
    /\ images = {"img0"}
    /\ token = TRUE
    /\ page = "admin"
    /\ modal = "none"
    /\ editingItem = Null
    /\ deleteCallback = Null
    /\ rendered = RenderAll(InitialDoc)
    /\ tasks = <<>>
    /\ now = 1
    /\ last = Quiet("init")

\* Handlers may overlap.
Init == Start /\ left = MaxEvents /\ alone = FALSE

\* The panel used one operation at a time: no event while a handler waits.
SeqInit == Start /\ left = MaxSeqEvents /\ alone = TRUE

\* The panel after the delete button of the first project and two clicks on
\* the confirm button, when the first of the two deleteItem calls has ended
\* (image deleted, project spliced out, PUT answered 2xx, list drawn again,
\* delete modal closed) and the second still waits for its image delete,
\* holding the index it computed at its click.
LateInit ==
    LET id == InitialDoc.projects[1].id
        doc == [InitialDoc EXCEPT !.projects = Tail(InitialDoc.projects)]
        shown == RenderAll(InitialDoc)
    IN  /\ config = doc
        /\ store = doc
        /\ images = {}
        /\ token = TRUE
        /\ page = "admin"
        /\ modal = "none"
        /\ editingItem = Null
        /\ deleteCallback = Null
        /\ rendered = [shown EXCEPT !.projects = doc.projects,
                                    !.stats = updateStats(shown.stats, doc)]
        /\ tasks = <<[pc |-> "imgdel", type |-> "project", id |-> id, index |-> 1,
                      path |-> InitialDoc.projects[1].image,
                      auth |-> Authorization(TRUE)]>>
        /\ now = 1
        /\ last = Step("return", "delete", "project", [id |-> id], "yes", "ok",
                       <<"saved", "deleted">>)
        /\ left = MaxLateEvents
        /\ alone = FALSE

\* The two projects added by submitting the add form twice within one value
\* of Date.now(), the first time without a file and the second time with one.
Twins ==
    LET first == FormData("project", [text |-> "b", featured |-> TRUE, file |-> FALSE],
                          NoPath) @@ ("id" :> NewId("project", 1))
        second == FormData("project", [text |-> "b", featured |-> TRUE, file |-> TRUE],
                           UploadedPath) @@ ("id" :> NewId("project", 1))
    IN  <<first, second>>

\* The document with the two projects of Twins after those of InitialDoc.
TwinDoc == [InitialDoc EXCEPT !.projects = InitialDoc.projects \o Twins]

\* The panel after the add form of a project was submitted twice within one
\* value of Date.now(), when both submissions have ended (upload and both PUTs
\* answered 2xx, list drawn again, modal closed); from here it is used one
\* operation at a time.
TwinInit ==
    /\ config = TwinDoc
    /\ store = TwinDoc
    /\ images = {"img0", UploadedPath}
    /\ token = TRUE
    /\ page = "admin"
    /\ modal = "none"
    /\ editingItem = Null
    /\ deleteCallback = Null
    /\ rendered = RenderAll(TwinDoc)
    /\ tasks = <<>>
    /\ now = 1
    /\ last = Step("return", "add", "project", Twins[2], "yes", "ok",
                   <<"saved">>)
    /\ left = MaxTwinEvents
    /\ alone = TRUE

\* An event (a click, a submission, the token leaving the storage) happens
\* while the page is up.
Event ==
    /\ page = "admin"
    /\ left > 0
    /\ alone => tasks = <<>>
    /\ left' = left - 1
    /\ alone' = alone

\* ------------------------------------------------------------- saveConfig
\* A saveConfig without the `!response.ok` test: any answer counts as saved.
anyAnswer(status) == status \in {"ok", "bad"}

\* What saveConfig returns for the reply its PUT got: true for a 2xx answer
\* only; a non-2xx answer ("bad") and a rejected fetch ("neterr") both end in
\* the catch block.
saveOk(status) == status = "ok"

\* The toast saveConfig shows for a reply.
saveToast(status) ==
    IF saveOk(status) THEN "saved"
    ELSE IF status = "notoken" THEN "authFailed" ELSE "saveFailed"

\* A PUT that carries the messages only.
messagesOnly(doc) == [k \in {"messages"} |-> Coll(doc, k)]

\* The body of the PUT: JSON.stringify(this.config), the whole document as it
\* is when saveConfig is called.
requestBody(doc) == doc

\* closeModal / the lists and toasts after `await this.saveConfig()` returned
\* `saved`, for each operation: [modal, editingItem, deleteCallback, rendered,
\* toasts].  doc is this.config when the handler resumes.
AfterSave(op, type, saved, doc, toasts) ==
    LET ui == [modal |-> modal, editingItem |-> editingItem,
               deleteCallback |-> deleteCallback, rendered |-> rendered,
               toasts |-> toasts]
        closed == [ui EXCEPT !.modal = "none", !.editingItem = Null]
        stats(r) == [r EXCEPT !["stats"] = updateStats(r["stats"], doc)]
    IN  CASE op = "add" ->
                IF saved
                THEN [closed EXCEPT !.rendered = stats(refreshSection(rendered, type, doc))]
                ELSE ui
          [] op = "update" ->
                IF saved
                THEN [closed EXCEPT !.rendered = refreshSection(rendered, type, doc)]
                ELSE ui
          [] op = "delete" ->
                IF saved
                THEN [ui EXCEPT !.rendered = stats(refreshSection(rendered, type, doc)),
                                !.toasts = Append(toasts, "deleted"),
                                !.deleteCallback = Null]
                ELSE [ui EXCEPT !.deleteCallback = Null]
          [] op = "markAsRead" ->
                [ui EXCEPT !.rendered = stats(refreshSection(rendered, "message", doc))]
          [] op = "markAllAsRead" ->
                [ui EXCEPT !.rendered = stats(refreshSection(rendered, "message", doc)),
                           !.toasts = Append(toasts, "allRead")]
          [] op = "savePersonalInfo" -> ui

\* A handler goes on after saveConfig returned; others are the handlers still
\* waiting.
Resume(others, ev, op, type, arg, status, doc) ==
    LET ui == AfterSave(op, type, saveOk(status), doc, <<saveToast(status)>>)
    IN  /\ modal' = ui.modal
        /\ editingItem' = ui.editingItem
        /\ deleteCallback' = ui.deleteCallback
        /\ rendered' = ui.rendered
        /\ last' = Step(ev, op, type, arg, IF saveOk(status) THEN "yes" ELSE "no",
                        status, ui.toasts)
        /\ tasks' = others

\* A saveConfig() that sends no PUT while one is in flight and returns false.
saveConfigGuarded(others, op, type, arg, doc) ==
    IF token /\ \E k \in 1..Len(others) : others[k].pc = "put"
    THEN /\ Resume(others, "call", op, type, arg, "busy", doc)
         /\ UNCHANGED page
    ELSE IF token
    THEN /\ tasks' = Append(others, [pc |-> "put", op |-> op, type |-> type,
                                     arg |-> arg, body |-> requestBody(doc),
                                     auth |-> Authorization(token)])
         /\ last' = Step("call", op, type, arg, "pending", "none", <<>>)
         /\ UNCHANGED <<page, modal, editingItem, deleteCallback, rendered>>
    ELSE /\ page' = "login"
         /\ Resume(others, "call", op, type, arg, "notoken", doc)

\* saveConfig() called by a handler, the document being doc.  Without a
\* token: a toast, the redirect, false.  With one: the PUT of the whole
\* document is sent and the handler waits for the reply.
saveConfig(others, op, type, arg, doc) ==
    IF token
    THEN /\ tasks' = Append(others, [pc |-> "put", op |-> op, type |-> type,
                                     arg |-> arg, body |-> requestBody(doc),
                                     auth |-> Authorization(token)])
         /\ last' = Step("call", op, type, arg, "pending", "none", <<>>)
         /\ UNCHANGED <<page, modal, editingItem, deleteCallback, rendered>>
    ELSE /\ page' = "login"
         /\ Resume(others, "call", op, type, arg, "notoken", doc)

\* A ConfigStore that keeps the messages it recorded when a PUT comes in.
ServerPutKeepsPosted(i) ==
    /\ tasks[i].pc = "put"
    /\ store' = [tasks[i].body EXCEPT !.messages =
                    @ \o SelectSeq(store.messages, LAMBDA m : m.id[1] = "posted")]
    /\ tasks' = [tasks EXCEPT ![i] = [pc |-> "resp", op |-> tasks[i].op,
                                      type |-> tasks[i].type, arg |-> tasks[i].arg,
                                      body |-> tasks[i].body, status |-> "ok"]]
    /\ last' = Quiet("server")
    /\ UNCHANGED <<config, images, token, page, modal, editingItem, deleteCallback,
                   rendered, now, left, alone>>

\* ConfigStore takes the PUT of task i: the body replaces the document.
ServerPut(i) ==
    /\ tasks[i].pc = "put"
    /\ store' = tasks[i].body
    /\ tasks' = [tasks EXCEPT ![i] = [pc |-> "resp", op |-> tasks[i].op,
                                      type |-> tasks[i].type, arg |-> tasks[i].arg,
                                      body |-> tasks[i].body, status |-> "ok"]]
    /\ last' = Quiet("server")
    /\ UNCHANGED <<config, images, token, page, modal, editingItem, deleteCallback,
                   rendered, now, left, alone>>

\* The 2xx reply reaches the handler of task i.
SaveReturn(i) ==
    /\ page = "admin"
    /\ tasks[i].pc = "resp"
    /\ Resume(Others(i), "return", tasks[i].op, tasks[i].type, tasks[i].arg,
              tasks[i].status, config)
    /\ UNCHANGED <<config, store, images, token, page, now, left, alone>>

\* A failing save after which the document is fetched again from the store.
SaveFailsReload(i) ==
    /\ page = "admin"
    /\ tasks[i].pc = "put"
    /\ config' = store
    /\ \E status \in {"bad", "neterr"} :
          Resume(Others(i), "return", tasks[i].op, tasks[i].type, tasks[i].arg,
                 status, store)
    /\ UNCHANGED <<store, images, token, page, now, left, alone>>

\* The PUT of task i fails: ConfigStore answers non-2xx ("bad") or the fetch is
\* rejected ("neterr"); the document in the store is not replaced.
SaveFails(i) ==
    /\ page = "admin"
    /\ tasks[i].pc = "put"
    /\ \E status \in {"bad", "neterr"} :
          Resume(Others(i), "return", tasks[i].op, tasks[i].type, tasks[i].arg,
                 status, config)
    /\ UNCHANGED <<config, store, images, token, page, now, left, alone>>

\* ------------------------------------------------------------------ modals
openAddModal(type) ==
    /\ Event /\ NoModal
    /\ editingItem' = Null
    /\ modal' = type
    /\ last' = Quiet("ui")
    /\ UNCHANGED <<config, store, images, token, page, deleteCallback, rendered,
                   tasks, now>>

\* editProject, editSkill, editExperience, editEducation: the button of an
\* item the list shows; nothing happens when the document no longer has it.
editItem(type, id) ==
    /\ Event /\ NoModal
    /\ findIndex(Coll(config, collections(type)), id) # 0
    /\ editingItem' = [type |-> type, id |-> id]
    /\ modal' = type
    /\ last' = Quiet("ui")
    /\ UNCHANGED <<config, store, images, token, page, deleteCallback, rendered,
                   tasks, now>>

closeModal ==
    /\ Event /\ modal # "none"
    /\ modal' = "none"
    /\ editingItem' = Null
    /\ last' = Quiet("ui")
    /\ UNCHANGED <<config, store, images, token, page, deleteCallback, rendered,
                   tasks, now>>

\* ------------------------------------------------------------- add, update
\* An addItem that pushes nothing when the collection's last item has the
\* same fields, the id apart.
addItemOnce(doc, type, data) ==
    LET items == Coll(doc, collections(type))
        same(a, b) == /\ DOMAIN a = DOMAIN b
                      /\ \A f \in DOMAIN a \ {"id"} : a[f] = b[f]
    IN  IF Len(items) > 0 /\ same(items[Len(items)], data)
        THEN doc
        ELSE WithColl(doc, collections(type), Append(items, data))

\* addItem up to its await: the item is pushed on its collection.
addItem(doc, type, data) ==
    WithColl(doc, collections(type), Append(Coll(doc, collections(type)), data))

\* updateItem up to its await: the first item with data's id becomes
\* { ...item, ...data }; the document as it is when no item has that id.
updateItem(doc, type, data) ==
    LET c == collections(type)
        index == findIndex(doc[c], data.id)
    IN  IF index # 0
        THEN [doc EXCEPT ![c][index] = Spread(doc[c][index], data)]
        ELSE doc

\* An updateItem without the `index !== -1` test.
hasItemAlways(doc, type, id) == TRUE

\* updateItem's `index !== -1`: the collection has an item with the id.  (With
\* the collection absent findIndex throws and the handler ends there.)
hasItem(doc, type, id) ==
    /\ collections(type) \in DOMAIN doc
    /\ findIndex(doc[collections(type)], id) # 0

\* The submit handler from the form fields on (after the upload, if any):
\* this.editingItem is read now; it decides between update and add.
SubmitRest(others, type, in, uploadedImagePath) ==
    LET data == FormData(type, in, uploadedImagePath) IN
    IF editingItem # Null
    THEN LET patch == data @@ ("id" :> editingItem.id)
             c == collections(type)
         IN  /\ now' = now
             /\ IF hasItem(config, type, patch.id)
                THEN /\ config' = updateItem(config, type, patch)
                     /\ saveConfig(others, "update", type, patch, config')
                ELSE /\ config' = config
                     /\ tasks' = others
                     /\ last' = Step("noop", "update", type, patch, "none", "none", <<>>)
                     /\ UNCHANGED <<page, modal, editingItem, deleteCallback, rendered>>
    ELSE \E time \in {now, now + 1} :
             LET item == data @@ ("id" :> NewId(type, time))
             IN  /\ now' = time
                 /\ config' = addItem(config, type, item)
                 /\ saveConfig(others, "add", type, item, config')

\* The modal form is submitted.  With a file chosen the upload is sent first
\* and the handler waits for it; `form` is what the submitted form was opened
\* for (an item to edit, or Null for an add).
Submit ==
    /\ Event /\ modal # "none"
    /\ \E in \in FormInputs(modal) :
          IF in.file
          THEN /\ tasks' = Append(tasks, [pc |-> "upload", type |-> modal, in |-> in,
                                          auth |-> Authorization(token),
                                          form |-> editingItem])
               /\ last' = Step("await", "submit", modal, <<>>, "none", "none", <<>>)
               /\ UNCHANGED <<config, page, modal, editingItem, deleteCallback,
                              rendered, now>>
          ELSE SubmitRest(tasks, modal, in, NoPath)
    /\ UNCHANGED <<store, images, token>>

\* POST /api/upload is answered: 2xx with the path of the stored image, non-2xx
\* ("bad"), or the fetch is rejected ("neterr").
UploadSettles(i) ==
    /\ tasks[i].pc = "upload"
    /\ \E status \in {"ok", "bad", "neterr"} :
          /\ tasks' = [tasks EXCEPT ![i] = [pc |-> "uploaded", type |-> tasks[i].type,
                                            in |-> tasks[i].in, status |-> status,
                                            form |-> tasks[i].form]]
          /\ images' = IF status = "ok" THEN images \cup {UploadedPath} ELSE images
    /\ last' = Quiet("server")
    /\ UNCHANGED <<config, store, token, page, modal, editingItem, deleteCallback,
                   rendered, now, left, alone>>

\* The handler of a submission goes on after a 2xx answer to its upload.
UploadOk(i) ==
    /\ page = "admin"
    /\ tasks[i].pc = "uploaded" /\ tasks[i].status = "ok"
    /\ SubmitRest(Others(i), tasks[i].type, tasks[i].in, UploadedPath)
    /\ UNCHANGED <<store, images, token, left, alone>>

\* A failing upload after which the handler goes on without an image.
UploadFailsGoesOn(i) ==
    /\ page = "admin"
    /\ tasks[i].pc = "uploaded" /\ tasks[i].status # "ok"
    /\ SubmitRest(Others(i), tasks[i].type, tasks[i].in, NoPath)
    /\ UNCHANGED <<store, images, token, left, alone>>

\* The upload failed (non-2xx or a rejected fetch): a toast, and the handler
\* returns.
UploadFails(i) ==
    /\ page = "admin"
    /\ tasks[i].pc = "uploaded" /\ tasks[i].status # "ok"
    /\ tasks' = Others(i)
    /\ last' = Step("abort", "submit", tasks[i].type, <<>>, "none", tasks[i].status,
                    <<"uploadFailed">>)
    /\ UNCHANGED <<config, store, images, token, page, modal, editingItem,
                   deleteCallback, rendered, now, left, alone>>

\* ------------------------------------------------------------------ delete
\* confirmDelete(type, id): the delete button of an item the list shows.
confirmDelete(type, id) ==
    /\ Event /\ NoModal
    /\ deleteCallback' = [type |-> type, id |-> id]
    /\ last' = Quiet("ui")
    /\ UNCHANGED <<config, store, images, token, page, modal, editingItem, rendered,
                   tasks, now>>

\* closeDeleteModal from the modal's cancel button.
closeDeleteModal ==
    /\ Event /\ deleteCallback # Null
    /\ deleteCallback' = Null
    /\ last' = Quiet("ui")
    /\ UNCHANGED <<config, store, images, token, page, modal, editingItem, rendered,
                   tasks, now>>

\* A deleteItem that sends no image-delete request.
hasNoImage(type, item) == FALSE

\* Whether deleteItem sends the image-delete request for an item.
hasImage(type, item) ==
    type = "project" /\ "image" \in DOMAIN item /\ item.image # NoPath

\* deleteItem from the splice on: the entry at index goes.
deleteItem(doc, type, index) ==
    WithColl(doc, collections(type), splice(Coll(doc, collections(type)), index))

\* The confirm button of the delete modal: deleteCallback runs deleteItem up
\* to its first await, or to its end when no item has the id.
ConfirmClicked ==
    /\ Event /\ deleteCallback # Null
    /\ LET type == deleteCallback.type
           id == deleteCallback.id
           items == config[collections(type)]
           index == findIndex(items, id)
       IN  IF index = 0
           THEN /\ deleteCallback' = Null
                /\ last' = Step("noop", "delete", type, [id |-> id], "none", "none", <<>>)
                /\ UNCHANGED <<config, images, page, modal, editingItem, rendered, tasks>>
           ELSE IF hasImage(type, items[index])
           THEN /\ tasks' = Append(tasks, [pc |-> "imgdel", type |-> type, id |-> id,
                                           index |-> index, path |-> items[index].image,
                                           auth |-> Authorization(token)])
                /\ last' = Step("await", "delete", type, [id |-> id], "none", "none", <<>>)
                /\ UNCHANGED <<config, images, page, modal, editingItem,
                               deleteCallback, rendered>>
           ELSE /\ config' = deleteItem(config, type, index)
                /\ saveConfig(tasks, "delete", type, [id |-> id], config')
                /\ UNCHANGED images
    /\ UNCHANGED <<store, token, now>>

\* A deleteItem that gives up when the image could not be deleted.
ImageDeleteSettlesOrStops(i) ==
    /\ page = "admin"
    /\ tasks[i].pc = "imgdel"
    /\ \E status \in {"ok", "bad", "neterr"} :
          IF status = "ok"
          THEN /\ images' = images \ {tasks[i].path}
               /\ config' = deleteItem(config, tasks[i].type, tasks[i].index)
               /\ saveConfig(Others(i), "delete", tasks[i].type, [id |-> tasks[i].id],
                             config')
          ELSE /\ tasks' = Others(i)
               /\ deleteCallback' = Null
               /\ last' = Step("abort", "delete", tasks[i].type, [id |-> tasks[i].id],
                               "none", status, <<>>)
               /\ UNCHANGED <<config, images, page, modal, editingItem, rendered>>
    /\ UNCHANGED <<store, token, now, left, alone>>

\* DELETE /api/images settles, whatever the outcome (deleteImage looks at no
\* status and catches a rejected fetch); deleteItem goes on with the index it
\* computed before the request.
ImageDeleteSettles(i) ==
    /\ page = "admin"
    /\ tasks[i].pc = "imgdel"
    /\ \E status \in {"ok", "bad", "neterr"} :
          images' = IF status = "ok" THEN images \ {tasks[i].path} ELSE images
    /\ config' = deleteItem(config, tasks[i].type, tasks[i].index)
    /\ saveConfig(Others(i), "delete", tasks[i].type, [id |-> tasks[i].id], config')
    /\ UNCHANGED <<store, token, now, left, alone>>

\* ---------------------------------------------------------------- messages
\* A markAsRead that sets the flag on every message.
markReadEach(doc, id) ==
    [doc EXCEPT !.messages = [i \in 1..Len(doc.messages) |->
                                 [doc.messages[i] EXCEPT !.read = TRUE]]]

\* message.read = true on the first message with the id.
markRead(doc, id) ==
    LET index == findIndex(doc.messages, id)
    IN  IF index # 0 THEN [doc EXCEPT !.messages[index].read = TRUE] ELSE doc

\* markAsRead(id): the button of an unread message the list shows.
markAsRead(id) ==
    /\ Event /\ NoModal
    /\ IF findIndex(config.messages, id) # 0
       THEN /\ config' = markRead(config, id)
            /\ saveConfig(tasks, "markAsRead", "message", [id |-> id], config')
       ELSE /\ last' = Step("noop", "markAsRead", "message", [id |-> id], "none",
                            "none", <<>>)
            /\ UNCHANGED <<config, page, modal, editingItem, deleteCallback,
                           rendered, tasks>>
    /\ UNCHANGED <<store, images, token, now>>

\* A markAllAsRead that flips every flag: m.read = !m.read.
markFlip(doc) ==
    [doc EXCEPT !.messages = [i \in 1..Len(doc.messages) |->
                                 [doc.messages[i] EXCEPT !.read = ~@]]]

\* this.config.messages.forEach(m => m.read = true)
markAll(doc) ==
    [doc EXCEPT !.messages = [i \in 1..Len(doc.messages) |->
                                 [doc.messages[i] EXCEPT !.read = TRUE]]]

markAllAsRead ==
    /\ Event /\ NoModal
    /\ config' = markAll(config)
    /\ saveConfig(tasks, "markAllAsRead", "message", <<>>, config')
    /\ UNCHANGED <<store, images, token, now>>

\* ----------------------------------------------------------- personal info
\* The inputs of the personal form: personal-* and social-*.
PersonalFields ==
    {"name", "title", "subtitle", "bio", "email", "phone", "location", "resume_link"}
SocialFields == {"github", "linkedin", "twitter", "instagram", "youtube", "dribbble"}

\* The platforms the portfolio's populateSocialLinks has an icon for.
iconMap == SocialFields \cup {"facebook", "codepen"}

\* What the personal form holds when it is saved: a value in every personal
\* input, the github input empty, a value in the other social inputs.
PersonalInputs ==
    {[personal |-> [f \in PersonalFields |-> "b"],
      social |-> [f \in SocialFields |-> IF f = "github" THEN "" ELSE "b"]]}

\* A savePersonalInfo that spreads the old social_links under the form's.
personalInfoMerged(doc, in) ==
    [doc EXCEPT !.personal_info = Spread(doc.personal_info, in.personal),
                !.social_links = Spread(doc.social_links, in.social)]

\* savePersonalInfo up to its await: the form's fields over the old
\* personal_info, and social_links made of the form's keys alone.
personalInfo(doc, in) ==
    [doc EXCEPT !.personal_info = Spread(doc.personal_info, in.personal),
                !.social_links = in.social]

savePersonalInfo ==
    /\ Event /\ NoModal
    /\ \E in \in PersonalInputs : config' = personalInfo(config, in)
    /\ saveConfig(tasks, "savePersonalInfo", "none", <<>>, config')
    /\ UNCHANGED <<store, images, token, now>>

\* ------------------------------------------------------------------ export
\* The fields whose values are booleans and numbers; all others are strings.
BooleanFields == {"featured", "read"}
NumberFields == {"level"}

\* Number.prototype.toString as JSON.stringify uses it.
toDecimal(n) == CASE n = 50 -> "50" [] n = 80 -> "80"

\* The JSON text of a value: true / false, the digits of a number, a quoted
\* string.
JSONtoken(field, value) ==
    IF field \in BooleanFields
    THEN [kind |-> "literal", text |-> IF value THEN "true" ELSE "false"]
    ELSE IF field \in NumberFields
    THEN [kind |-> "number", text |-> toDecimal(value)]
    ELSE [kind |-> "string", text |-> value]

\* An object written without its false properties.
JSONtruthy(obj) ==
    [f \in {g \in DOMAIN obj : g \notin BooleanFields \/ obj[g]} |-> JSONtoken(f, obj[f])]

\* The JSON text of an object: every property, with the text of its value.
JSONobject(obj) == [f \in DOMAIN obj |-> JSONtoken(f, obj[f])]

\* JSON.stringify(this.config, null, 2): the lists as arrays of objects, the
\* other keys as objects.
JSONstringify(doc) ==
    [k \in DOMAIN doc |->
        IF k \in Sections
        THEN [i \in 1..Len(doc[k]) |-> JSONobject(doc[k][i])]
        ELSE JSONobject(doc[k])]

\* The value a JSON token is read as.
JSONvalue(t) ==
    CASE t.kind = "literal" -> t.text = "true"
      [] t.kind = "number"  -> parseInt(t.text)
      [] t.kind = "string"  -> t.text

\* JSON.parse of an exported file: arrays and objects are read alike, index
\* by index and property by property.
JSONparse(json) ==
    [k \in DOMAIN json |->
        IF k \in Sections
        THEN [i \in DOMAIN json[k] |-> [f \in DOMAIN json[k][i] |-> JSONvalue(json[k][i][f])]]
        ELSE [f \in DOMAIN json[k] |-> JSONvalue(json[k][f])]]

\* exportData: the document is written to a file, which the step records.
exportData ==
    /\ Event /\ NoModal
    /\ last' = Step("export", "exportData", "none", JSONstringify(config), "none",
                    "none", <<"exported">>)
    /\ UNCHANGED <<config, store, images, token, page, modal, editingItem,
                   deleteCallback, rendered, tasks, now>>

\* ------------------------------------------------------------- list markup
\* The collections the panel draws a list of, and those the portfolio draws.
AdminLists == {"projects", "skills", "experience", "education", "messages"}
PortfolioLists == <<"skills", "projects", "experience", "education", "certifications">>

\* What a container holds after its renderer ran: the empty-state
\* placeholder, one card per item, nothing at all, or what it held before
\* because the renderer threw or was never reached.
Markup(state, cards) == [state |-> state, cards |-> cards]

\* The panel's populateProjects, populateSkills, populateExperience,
\* populateEducation, populateMessages on `this.config[c] || []`: the
\* placeholder for a list of length 0, else the cards.
adminList(doc, c) ==
    LET items == Coll(doc, c)
    IN  IF Len(items) = 0 THEN Markup("placeholder", <<>>) ELSE Markup("cards", items)

\* The portfolio's populateSkills, populateProjects, populateExperience,
\* populateEducation, populateCertifications on the destructured field: html
\* is built by forEach, which throws on an absent field and adds nothing for
\* an empty list.
portfolioList(doc, c) ==
    IF c \notin DOMAIN doc THEN Markup("threw", <<>>)
    ELSE IF Len(doc[c]) = 0 THEN Markup("nothing", <<>>)
    ELSE Markup("cards", doc[c])

\* The first list of the portfolio whose renderer throws, 0 when none does.
firstThrow(doc) ==
    LET T == {n \in 1..Len(PortfolioLists) :
                 portfolioList(doc, PortfolioLists[n]).state = "threw"}
    IN  IF T = {} THEN 0 ELSE CHOOSE n \in T : \A m \in T : n <= m

\* populateContent's list part: the renderers run in order up to the first
\* that throws; the containers after it keep the page's markup.
portfolioContent(doc) ==
    [c \in {PortfolioLists[n] : n \in 1..Len(PortfolioLists)} |->
        LET n == CHOOSE m \in 1..Len(PortfolioLists) : PortfolioLists[m] = c
        IN  IF firstThrow(doc) = 0 \/ n <= firstThrow(doc)
            THEN portfolioList(doc, c)
            ELSE Markup("untouched", <<>>)]

\* One item of a collection, as far as a list shows it.
ItemOf(c) == [id |-> <<c, 0>>, title |-> "a"]

\* The documents a page may have loaded: each collection absent, empty or
\* with one item.
RenderDocs ==
    LET Keys == AdminLists \cup {"certifications"}
        Fill == [Keys -> {"absent", "empty", "one"}]
    IN  {[k \in {x \in Keys : f[x] # "absent"} \cup {"personal_info", "social_links"} |->
            IF k \in Keys
            THEN (IF f[k] = "empty" THEN <<>> ELSE <<ItemOf(k)>>)
            ELSE InitialDoc[k]] : f \in Fill}

\* A page whose loadConfig has returned with a document; init is about to
\* populate.
RenderInit ==
    /\ config \in RenderDocs
    /\ store = config
    /\ images = {}
    /\ token = TRUE
    /\ page \in {"adminLoaded", "portfolioLoaded"}
    /\ modal = "none"
    /\ editingItem = Null
    /\ deleteCallback = Null
    /\ rendered = Null
    /\ tasks = <<>>
    /\ now = 1
    /\ left = 0
    /\ alone = FALSE
    /\ last = Quiet("init")

\* AdminPanel.init after loadConfig: every list of the panel is drawn.
AdminPopulates ==
    /\ page = "adminLoaded"
    /\ rendered' = [c \in AdminLists |-> adminList(config, c)]
    /\ page' = "admin"
    /\ last' = Step("populate", "init", "admin", <<>>, "none", "none", <<>>)
    /\ UNCHANGED <<config, store, images, token, modal, editingItem, deleteCallback,
                   tasks, now, left, alone>>

\* Portfolio.init after loadConfig: populateContent draws the lists; when a
\* renderer throws, init's catch block shows the load-failure toast.
PortfolioPopulates ==
    /\ page = "portfolioLoaded"
    /\ rendered' = portfolioContent(config)
    /\ page' = "portfolio"
    /\ last' = Step("populate", "init", "portfolio", <<>>, "none", "none",
                    IF firstThrow(config) = 0 THEN <<>> ELSE <<"loadFailed">>)
    /\ UNCHANGED <<config, store, images, token, modal, editingItem, deleteCallback,
                   tasks, now, left, alone>>

\* -------------------------------------------------------------- typewriter
\* The values of personal_info.title, as lists of characters.
Titles == {<<>>, <<"a">>, <<"a", "b">>}

\* The typewriter's words: the title, then the four fixed ones.
words(title) ==
    << title,
       <<"W", "e", "b", " ", "D", "e", "v", "e", "l", "o", "p", "e", "r">>,
       <<"3", "D", " ", "E", "n", "t", "h", "u", "s", "i", "a", "s", "t">>,
       <<"P", "r", "o", "b", "l", "e", "m", " ", "S", "o", "l", "v", "e", "r">>,
       <<"C", "r", "e", "a", "t", "i", "v", "e", " ", "T", "h", "i", "n", "k", "e", "r">> >>

\* String.prototype.substring(0, end): end below 0 counts as 0, end past the
\* length as the length.
substring(word, end) ==
    SubSeq(word, 1, IF end < 0 THEN 0 ELSE IF end > Len(word) THEN Len(word) ELSE end)

\* initTypewriter up to the first call of type(): the element is as the page
\* has it, the three variables at their start.
TypeInit ==
    /\ \E title \in Titles :
          config = [InitialDoc EXCEPT !.personal_info =
                       Spread(@, [title |-> title])]
    /\ store = InitialDoc
    /\ images = {"img0"}
    /\ token = FALSE
    /\ page = "portfolio"
    /\ modal = "none"
    /\ editingItem = Null
    /\ deleteCallback = Null
    /\ rendered = [textContent |-> <<>>, wordIndex |-> 0, charIndex |-> 0,
                   isDeleting |-> FALSE, typeSpeed |-> 0]
    /\ tasks = <<>>
    /\ now = 1
    /\ left = 0
    /\ alone = FALSE
    /\ last = Quiet("init")

\* One call of type(), from initTypewriter or from its timer.
typeCall ==
    /\ page = "portfolio"
    /\ "charIndex" \in DOMAIN rendered
    /\ rendered.charIndex < MaxCharIndex
    /\ LET list == words(config.personal_info.title)
           currentWord == list[rendered.wordIndex + 1]
           charIndex == IF rendered.isDeleting THEN rendered.charIndex - 1
                        ELSE rendered.charIndex + 1
           text == IF rendered.isDeleting
                   THEN substring(currentWord, rendered.charIndex - 1)
                   ELSE substring(currentWord, rendered.charIndex + 1)
       IN  rendered' =
             IF ~rendered.isDeleting /\ charIndex = Len(currentWord)
             THEN [textContent |-> text, wordIndex |-> rendered.wordIndex,
                   charIndex |-> charIndex, isDeleting |-> TRUE, typeSpeed |-> 2000]
             ELSE IF rendered.isDeleting /\ charIndex = 0
             THEN [textContent |-> text,
                   wordIndex |-> (rendered.wordIndex + 1) % Len(list),
                   charIndex |-> charIndex, isDeleting |-> FALSE, typeSpeed |-> 500]
             ELSE [textContent |-> text, wordIndex |-> rendered.wordIndex,
                   charIndex |-> charIndex, isDeleting |-> rendered.isDeleting,
                   typeSpeed |-> IF rendered.isDeleting THEN 50 ELSE 100]
    /\ last' = Quiet("timer")
    /\ UNCHANGED <<config, store, images, token, page, modal, editingItem,
                   deleteCallback, tasks, now, left, alone>>

\* ------------------------------------------------------------ contact form
\* The submit button's markup as the page has it, and while a submission waits.
OriginalText == "Send Message"
SendingText == "Sending..."

\* The portfolio is up; the contact form is empty, its button enabled, the
\* success note hidden.
ContactInit ==
    /\ config = InitialDoc
    /\ store = InitialDoc
    /\ images = {"img0"}
    /\ token = FALSE
    /\ page = "portfolio"
    /\ modal = "none"
    /\ editingItem = Null
    /\ deleteCallback = Null
    /\ rendered = [button |-> [disabled |-> FALSE, label |-> OriginalText],
                   fields |-> "empty", success |-> FALSE]
    /\ tasks = <<>>
    /\ now = 1
    /\ left = MaxContactEvents
    /\ alone = FALSE
    /\ last = Quiet("init")

\* The visitor does something on the portfolio page.
Visitor ==
    /\ page = "portfolio"
    /\ left > 0
    /\ left' = left - 1

\* The visitor types in the form.
TypeInForm ==
    /\ Visitor
    /\ rendered.fields = "empty"
    /\ rendered' = [rendered EXCEPT !.fields = "filled"]
    /\ last' = Quiet("ui")
    /\ UNCHANGED <<config, store, images, token, page, modal, editingItem,
                   deleteCallback, tasks, now, alone>>

\* A submit handler that leaves the button as it is.
ContactSubmitKeepsButton ==
    /\ Visitor
    /\ ~rendered.button.disabled
    /\ tasks' = Append(tasks, [pc |-> "post", data |-> rendered.fields,
                               originalText |-> rendered.button.label])
    /\ last' = Step("await", "contact", "message", <<>>, "none", "none", <<>>)
    /\ UNCHANGED <<config, store, images, token, page, modal, editingItem,
                   deleteCallback, rendered, now, alone>>

\* The form's submit event, which the browser fires only while the submit
\* button is enabled: the handler up to its await.  The button's markup is
\* kept, the button shows the spinner and is disabled, POST /api/messages is
\* sent with the fields.
ContactSubmit ==
    /\ Visitor
    /\ ~rendered.button.disabled
    /\ tasks' = Append(tasks, [pc |-> "post", data |-> rendered.fields,
                               originalText |-> rendered.button.label])
    /\ rendered' = [rendered EXCEPT !.button = [disabled |-> TRUE, label |-> SendingText]]
    /\ last' = Step("await", "contact", "message", <<>>, "none", "none", <<>>)
    /\ UNCHANGED <<config, store, images, token, page, modal, editingItem,
                   deleteCallback, now, alone>>

\* POST /api/messages settles: 2xx, non-2xx ("bad"), or the fetch is rejected
\* ("neterr").  (What ConfigStore records for a 2xx is PostMessage.)
ContactAnswered(i) ==
    /\ tasks[i].pc = "post"
    /\ \E status \in {"ok", "bad", "neterr"} :
          tasks' = [tasks EXCEPT ![i] = [pc |-> "posted", data |-> tasks[i].data,
                                        originalText |-> tasks[i].originalText,
                                        status |-> status]]
    /\ last' = Quiet("server")
    /\ UNCHANGED <<config, store, images, token, page, modal, editingItem,
                   deleteCallback, rendered, now, left, alone>>

\* The submit handler goes on after the answer: for a 2xx the success note
\* is shown, the form reset and a toast shown; otherwise the failure toast;
\* in both cases the finally block puts the kept markup back and enables the
\* button.
ContactResumes(i) ==
    /\ tasks[i].pc = "posted"
    /\ rendered' =
          [button |-> [disabled |-> FALSE, label |-> tasks[i].originalText],
           fields |-> IF tasks[i].status = "ok" THEN "empty" ELSE rendered.fields,
           success |-> IF tasks[i].status = "ok" THEN TRUE ELSE rendered.success]
    /\ tasks' = Others(i)
    /\ last' = Step("return", "contact", "message", <<>>, "none", tasks[i].status,
                    IF tasks[i].status = "ok" THEN <<"messageSent">>
                    ELSE <<"messageFailed">>)
    /\ UNCHANGED <<config, store, images, token, page, modal, editingItem,
                   deleteCallback, now, left, alone>>

\* The 5000 ms timer of a 2xx answer hides the success note.
SuccessTimeout ==
    /\ page = "portfolio"
    /\ rendered.success
    /\ rendered' = [rendered EXCEPT !.success = FALSE]
    /\ last' = Quiet("timer")
    /\ UNCHANGED <<config, store, images, token, page, modal, editingItem,
                   deleteCallback, tasks, now, left, alone>>

ContactNext ==
    \/ TypeInForm
    \/ ContactSubmit
    \/ \E i \in 1..Len(tasks) : ContactAnswered(i)
    \/ \E i \in 1..Len(tasks) : ContactResumes(i)
    \/ SuccessTimeout

\* ------------------------------------------------------------ POST messages
\* The message ConfigStore records for a POST /api/messages, the n-th of its
\* list.
PostedMessage(n) == [id |-> <<"posted", n>>, subject |-> "s", read |-> FALSE]

\* The positions in a document's messages of those POST /api/messages recorded.
Posted(doc) == {i \in 1..Len(doc.messages) : doc.messages[i].id[1] = "posted"}

\* POST /api/messages from a visitor's contact form is answered 2xx while
\* the panel is up: ConfigStore has one more message.
PostMessage ==
    /\ page = "admin"
    /\ left > 0
    /\ left' = left - 1
    /\ store' = [store EXCEPT !.messages =
                    Append(@, PostedMessage(Len(store.messages) + 1))]
    /\ last' = Quiet("server")
    /\ UNCHANGED <<config, images, token, page, modal, editingItem, deleteCallback,
                   rendered, tasks, now, alone>>

\* The panel loaded InitialDoc and then a visitor's message was recorded; from
\* here the panel is used one operation at a time.
InboxInit ==
    /\ config = InitialDoc
    /\ store = [InitialDoc EXCEPT !.messages =
                   Append(@, PostedMessage(Len(InitialDoc.messages) + 1))]
    /\ images = {"img0"}
    /\ token = TRUE
    /\ page = "admin"
    /\ modal = "none"
    /\ editingItem = Null
    /\ deleteCallback = Null
    /\ rendered = RenderAll(InitialDoc)
    /\ tasks = <<>>
    /\ now = 1
    /\ last = Quiet("server")
    /\ left = MaxInboxEvents
    /\ alone = TRUE

\* The documents ConfigStore may hold when a page is opened.
LoadDocs ==
    {InitialDoc,
     [InitialDoc EXCEPT !.messages = <<>>],
     [InitialDoc EXCEPT !.projects = <<>>, !.skills = <<>>]}

\* The document in the static file config/portfolio_config.json.
StaticDoc == [InitialDoc EXCEPT !.messages = <<>>, !.experience = <<>>]

\* The JSON body of a non-2xx answer.
ErrorBody == [detail |-> "Not Found"]

\* A page is opened: the admin panel or the portfolio, with or without a
\* stored token; nothing is loaded or populated yet.
LoadInit ==
    /\ config = Null
    /\ store \in LoadDocs
    /\ images = {"img0"}
    /\ token \in BOOLEAN
    /\ page \in {"adminBoot", "portfolioBoot"}
    /\ modal = "none"
    /\ editingItem = Null
    /\ deleteCallback = Null
    /\ rendered = Null
    /\ tasks = <<>>
    /\ now = 1
    /\ left = 0
    /\ alone = FALSE
    /\ last = Quiet("init")

\* AdminPanel.init up to its await: without a token checkAuth redirects and
\* init returns; with one loadConfig sends GET /api/config.
AdminInit ==
    /\ page = "adminBoot"
    /\ IF token
       THEN /\ page' = "loading"
            /\ tasks' = <<[pc |-> "get", app |-> "admin", auth |-> Authorization(token)]>>
       ELSE /\ page' = "login"
            /\ tasks' = tasks
    /\ last' = Quiet("boot")
    /\ UNCHANGED <<config, store, images, token, modal, editingItem, deleteCallback,
                   rendered, now, left, alone>>

\* Portfolio.init up to its await: loadConfig sends GET /api/config, with no
\* header.
PortfolioInit ==
    /\ page = "portfolioBoot"
    /\ page' = "loading"
    /\ tasks' = <<[pc |-> "get", app |-> "portfolio", auth |-> Authorization(FALSE)]>>
    /\ last' = Quiet("boot")
    /\ UNCHANGED <<config, store, images, token, modal, editingItem, deleteCallback,
                   rendered, now, left, alone>>

\* GET /api/config is answered: 2xx with the stored document, non-2xx, or the
\* fetch is rejected.
ConfigAnswered(i) ==
    /\ tasks[i].pc = "get"
    /\ \E status \in {"ok", "bad", "neterr"} :
          tasks' = [tasks EXCEPT ![i] = [pc |-> "got", app |-> tasks[i].app,
                                        api |-> status]]
    /\ last' = Quiet("server")
    /\ UNCHANGED <<config, store, images, token, page, modal, editingItem,
                   deleteCallback, rendered, now, left, alone>>

\* What init does once loadConfig has returned with doc: the panel populates
\* its dashboard and lists, the portfolio its content.
Populated(app, doc) ==
    IF app = "admin" THEN RenderAll(doc) ELSE [content |-> doc]

\* init ends: its page is up, with the toast of its catch block when
\* loadConfig threw.
InitEnds(app, api, static, doc, shown, toasts) ==
    /\ config' = doc
    /\ rendered' = shown
    /\ page' = app
    /\ tasks' = <<>>
    /\ last' = Step("load", "init", app, [api |-> api, static |-> static],
                    "none", "none", toasts)

\* loadConfig goes on after the answer to GET /api/config: the document of a
\* 2xx answer becomes the config and init populates; otherwise the catch
\* block fetches the static file.
ConfigLoaded(i) ==
    /\ tasks[i].pc = "got"
    /\ IF tasks[i].api = "ok"
       THEN InitEnds(tasks[i].app, "ok", "none", store,
                     Populated(tasks[i].app, store), <<>>)
       ELSE /\ tasks' = [tasks EXCEPT ![i] = [pc |-> "getStatic", app |-> tasks[i].app,
                                              api |-> tasks[i].api]]
            /\ last' = Quiet("fallback")
            /\ UNCHANGED <<config, rendered, page>>
    /\ UNCHANGED <<store, images, token, modal, editingItem, deleteCallback, now,
                   left, alone>>

\* The request for the static file is answered: 2xx with the file, non-2xx
\* with a body that is not JSON ("bad") or with a JSON body ("badjson"), or
\* the fetch is rejected.
StaticAnswered(i) ==
    /\ tasks[i].pc = "getStatic"
    /\ \E status \in {"ok", "bad", "badjson", "neterr"} :
          tasks' = [tasks EXCEPT ![i] = [pc |-> "gotStatic", app |-> tasks[i].app,
                                        api |-> tasks[i].api, static |-> status]]
    /\ last' = Quiet("server")
    /\ UNCHANGED <<config, store, images, token, page, modal, editingItem,
                   deleteCallback, rendered, now, left, alone>>

\* Whether the catch block of loadConfig gets a document out of the answer to
\* the request for the static file.  The portfolio tests response.ok before
\* response.json(); the panel calls response.json() on whatever came, which
\* throws only when there is no answer or its body is not JSON.
staticParsed(app, static) ==
    IF app = "portfolio" THEN static = "ok" ELSE static \in {"ok", "badjson"}

\* The catch block of loadConfig goes on after the answer to the request for
\* the static file.
StaticLoaded(i) ==
    /\ tasks[i].pc = "gotStatic"
    /\ LET app == tasks[i].app
           doc == IF tasks[i].static = "ok" THEN StaticDoc ELSE ErrorBody
       IN  IF staticParsed(app, tasks[i].static)
           THEN InitEnds(app, tasks[i].api, tasks[i].static, doc, Populated(app, doc), <<>>)
           ELSE InitEnds(app, tasks[i].api, tasks[i].static, config, rendered,
                         <<"loadFailed">>)
    /\ UNCHANGED <<store, images, token, modal, editingItem, deleteCallback, now,
                   left, alone>>

LoadNext ==
    \/ AdminInit
    \/ PortfolioInit
    \/ \E i \in 1..Len(tasks) : ConfigAnswered(i)
    \/ \E i \in 1..Len(tasks) : ConfigLoaded(i)
    \/ \E i \in 1..Len(tasks) : StaticAnswered(i)
    \/ \E i \in 1..Len(tasks) : StaticLoaded(i)

\* ------------------------------------------------------------- environment
\* admin_token leaves localStorage while the panel is open (another tab of
\* the origin logs out or clears the storage).
TokenRemoved ==
    /\ Event /\ token
    /\ token' = FALSE
    /\ last' = Quiet("env")
    /\ UNCHANGED <<config, store, images, page, modal, editingItem, deleteCallback,
                   rendered, tasks, now>>

\* ----------------------------------------------------------- specifications
\* The ids of the items a list shows: its buttons.
Shown(type) ==
    {rendered[collections(type)][i].id : i \in 1..Len(rendered[collections(type)])}

\* The unread messages the list shows: those with a mark-as-read button.
ShownUnread ==
    {rendered.messages[i].id : i \in {k \in 1..Len(rendered.messages) :
                                         ~rendered.messages[k].read}}

Next ==
    \/ \E type \in Types : openAddModal(type)
    \/ \E type \in Types : \E id \in Shown(type) : editItem(type, id)
    \/ closeModal
    \/ Submit
    \/ \E type \in Types \cup {"message"} : \E id \in Shown(type) : confirmDelete(type, id)
    \/ closeDeleteModal
    \/ ConfirmClicked
    \/ \E id \in ShownUnread : markAsRead(id)
    \/ markAllAsRead
    \/ savePersonalInfo
    \/ TokenRemoved
    \/ \E i \in 1..Len(tasks) : UploadSettles(i)
    \/ \E i \in 1..Len(tasks) : UploadOk(i)
    \/ \E i \in 1..Len(tasks) : UploadFails(i)
    \/ \E i \in 1..Len(tasks) : ImageDeleteSettles(i)
    \/ \E i \in 1..Len(tasks) : ServerPut(i)
    \/ \E i \in 1..Len(tasks) : SaveReturn(i)
    \/ \E i \in 1..Len(tasks) : SaveFails(i)

Spec == Init /\ [][Next]_vars

SeqSpec == SeqInit /\ [][Next]_vars

LateSpec == LateInit /\ [][Next]_vars

\* The panel used one operation at a time on a document with two projects of
\* one id.
TwinSpec == TwinInit /\ [][Next]_vars

\* A page being opened, up to the end of its init.
LoadSpec == LoadInit /\ [][LoadNext]_vars

\* A page drawing its lists from the document it loaded.
RenderSpec == RenderInit /\ [][AdminPopulates \/ PortfolioPopulates]_vars

\* The panel used either way: handlers overlapping, or one operation at a
\* time.
MixedSpec == (Init \/ SeqInit) /\ [][Next]_vars

\* The typewriter of the portfolio; its timer always fires.
TypeSpec == TypeInit /\ [][typeCall]_vars /\ WF_vars(typeCall)

\* A visitor on the contact form.  Every fetch settles and every settled
\* fetch resumes its handler.
ContactSpec ==
    /\ ContactInit /\ [][ContactNext]_vars
    /\ WF_vars(\E i \in 1..Len(tasks) : ContactAnswered(i))
    /\ WF_vars(\E i \in 1..Len(tasks) : ContactResumes(i))

\* The panel used one operation at a time while visitors post messages.
InboxSpec == InboxInit /\ [][Next \/ PostMessage]_vars

\* The panel used one operation at a time, exports among the operations.
ExportSpec == SeqInit /\ [][Next \/ exportData]_vars

\* ------------------------------------------------------------------ claims
\* The PUT requests in flight.
PutCount(ts) == Cardinality({i \in 1..Len(ts) : ts[i].pc = "put"})

\* The last step ended a saveConfig that returned false.
SaveFailed(l) == l.ev \in {"call", "return"} /\ l.saved = "no"

OtherKeysSame(old, new, c) ==
    /\ DOMAIN new = DOMAIN old \cup {c}
    /\ \A k \in DOMAIN old \ {c} : new[k] = old[k]

\* C1: addItem makes the collection one longer, and looking the assigned id up
\* in the collection (the first item with that id) gives the item just added.
C1_AddGrowsAndFinds ==
    [][ (last'.ev = "call" /\ last'.op = "add") =>
            LET c == collections(last'.type)
                items == Coll(config', c)
            IN  /\ Len(items) = Len(Coll(config, c)) + 1
                /\ findIndex(items, last'.arg.id) = Len(items) ]_vars

\* C2: a deleteItem run on its own takes out the first entry with the id and
\* nothing else, the other entries keeping their order and the other
\* collections their content; with no such entry the document stays as it is
\* and no PUT and no image delete is sent.
C2_DeleteRemovesOne ==
    [][ /\ (last'.ev = "call" /\ last'.op = "delete") =>
              LET c == collections(last'.type)
                  old == config[c]
                  new == config'[c]
                  index == findIndex(old, last'.arg.id)
              IN  /\ index # 0
                  /\ Len(new) = Len(old) - 1
                  /\ \A k \in 1..Len(new) : new[k] = IF k < index THEN old[k] ELSE old[k + 1]
                  /\ OtherKeysSame(config, config', c)
        /\ (last'.ev = "noop" /\ last'.op = "delete") =>
              /\ findIndex(config[collections(last'.type)], last'.arg.id) = 0
              /\ config' = config
              /\ tasks' = tasks
              /\ images' = images ]_vars

C2_Witness ==
    /\ alone
    /\ last.ev = "call" /\ last.op = "delete" /\ last.type = "project"
    /\ Len(config.projects) = 1

\* C3: updateItem puts { ...item, ...patch } in the place of the first item
\* with the patch's id: the patch's fields, every other field of the item as
\* it was, the same id, the same position; nothing else changes.
C3_UpdateMerges ==
    [][ (last'.ev = "call" /\ last'.op = "update") =>
            LET c == collections(last'.type)
                patch == last'.arg
                old == config[c]
                new == config'[c]
                index == findIndex(old, patch.id)
            IN  /\ index # 0
                /\ Len(new) = Len(old)
                /\ \A k \in 1..Len(old) : k # index => new[k] = old[k]
                /\ new[index].id = old[index].id
                /\ DOMAIN new[index] = DOMAIN old[index] \cup DOMAIN patch
                /\ \A f \in DOMAIN old[index] \ DOMAIN patch : new[index][f] = old[index][f]
                /\ \A f \in DOMAIN patch : new[index][f] = patch[f]
                /\ OtherKeysSame(config, config', c) ]_vars

C3_Witness ==
    /\ last.ev = "call" /\ last.op = "update" /\ last.type = "project"
    /\ "image" \notin DOMAIN last.arg
    /\ config.projects[1].image = "img0"
    /\ config.projects[1].title = "b"

\* C4: when the save of an add, update or delete fails, nothing is rolled
\* back: the in-memory document is the one the operation made (the one its
\* PUT carried), with the added item, the merged fields, the entry gone, and
\* the failed PUT left the store's document alone.
C4_NoRollback ==
    [][ (last'.ev = "return" /\ last'.saved = "no"
            /\ last'.op \in {"add", "update", "delete"}) =>
            LET c == collections(last'.type)
                items == Coll(config', c)
            IN  /\ config' = config
                /\ store' = store
                /\ \E i \in 1..Len(tasks) :
                      /\ tasks[i].pc = "put" /\ tasks' = Others(i)
                      /\ config' = tasks[i].body
                /\ last'.op = "add" => items[Len(items)] = last'.arg
                /\ last'.op = "update" =>
                      \A f \in DOMAIN last'.arg :
                          items[findIndex(items, last'.arg.id)][f] = last'.arg[f] ]_vars

C4_Witness ==
    /\ alone
    /\ last.ev = "return" /\ last.saved = "no" /\ last.op = "add"
    /\ Len(Coll(config, collections(last.type))) =
          Len(Coll(store, collections(last.type))) + 1

\* C5 as claimed: every mutating operation sends exactly one PUT, whose body
\* is the whole in-memory document as the mutation left it.
C5_EveryMutationPuts ==
    [][ last'.ev = "call" =>
            /\ PutCount(tasks') = PutCount(tasks) + 1
            /\ tasks'[Len(tasks')].pc = "put"
            /\ tasks'[Len(tasks')].body = config' ]_vars

\* C5 amended: with a token stored every mutating operation sends exactly one
\* PUT, whose body is the whole in-memory document as the mutation left it;
\* without a token it sends none; and no other step sends a PUT.
C5_MutationPutsWithToken ==
    [][ /\ (last'.ev = "call" /\ token) =>
              /\ PutCount(tasks') = PutCount(tasks) + 1
              /\ tasks'[Len(tasks')].pc = "put"
              /\ tasks'[Len(tasks')].body = config'
        /\ (last'.ev = "call" /\ ~token) => PutCount(tasks') = PutCount(tasks)
        /\ last'.ev # "call" => PutCount(tasks') <= PutCount(tasks) ]_vars

C5_Witness ==
    /\ last.ev = "call" /\ last.op = "markAllAsRead" /\ last.saved = "pending"
    /\ Len(tasks) = 2 /\ tasks[1].pc = "put" /\ tasks[2].pc = "put"
    /\ tasks[2].body = config /\ tasks[1].body # config

\* C6: saveConfig returns true, with the success toast, just when its PUT got
\* a 2xx answer; a non-2xx answer and a rejected fetch make it return false
\* with the error toast, and the PUT is not sent again.
C6_SaveResult ==
    [][ last'.ev = "return" =>
            /\ last'.saved = "yes" <=> last'.status = "ok"
            /\ last'.status \in {"bad", "neterr"} => last'.saved = "no"
            /\ last'.saved = "yes" => last'.toasts[1] = "saved"
            /\ last'.saved = "no" =>
                  /\ last'.toasts[1] = "saveFailed"
                  /\ Len(tasks') = Len(tasks) - 1
                  /\ PutCount(tasks') = PutCount(tasks) - 1 ]_vars

C6_Witness == last.ev = "return" /\ last.status = "bad" /\ last.saved = "no"

\* C7: a mutation made while an earlier PUT is in flight sends its own PUT at
\* once, and the store holds the body of the PUT it took last, also when a PUT
\* sent later was taken before it.
C7_Overlap ==
    [][ /\ (last'.ev = "call" /\ token /\ PutCount(tasks) > 0) =>
              PutCount(tasks') = PutCount(tasks) + 1
        /\ \A i \in 1..Len(tasks) :
              (last'.ev = "server" /\ tasks[i].pc = "put" /\ tasks'[i].pc = "resp") =>
                  store' = tasks[i].body ]_vars

\* Two saves overlapped, the store took the later one first, both got a 2xx
\* answer: the store holds the earlier body, without the later mutation that
\* the in-memory document has.
C7_Witness ==
    /\ Len(tasks) = 2
    /\ tasks[1].pc = "resp" /\ tasks[2].pc = "resp"
    /\ store = tasks[1].body
    /\ config = tasks[2].body
    /\ store # config

\* C8 as claimed: a failed save shows a notification and leaves what is
\* rendered as it was.
C8_FailureLeavesUI ==
    [][ SaveFailed(last') =>
            /\ rendered' = rendered
            /\ last'.toasts \in {<<"saveFailed">>, <<"authFailed">>} ]_vars

\* C9 as claimed: once a mutation has completed, saved or not, the list of
\* its collection shows the in-memory collection.
C9_RenderedAfterMutation ==
    (/\ last.op \in {"add", "update", "delete", "markAsRead", "markAllAsRead"}
     /\ last.ev = "return" \/ SaveFailed(last))
        => rendered[collections(last.type)] = Coll(config, collections(last.type))

\* The submissions whose upload has failed and whose handler has not gone on.
FailedUploads(ts) ==
    Cardinality({i \in 1..Len(ts) : ts[i].pc = "uploaded" /\ ts[i].status # "ok"})

\* C10: when the upload of a submission has failed (non-2xx or a rejected
\* fetch) the handler ends with a toast: the in-memory document is as it was
\* and no PUT is sent; nor does the submission touch the document or send a
\* PUT while the upload is in flight.
C10_UploadFailureAborts ==
    [][ /\ FailedUploads(tasks') < FailedUploads(tasks) =>
              /\ config' = config
              /\ PutCount(tasks') = PutCount(tasks)
              /\ Len(tasks') = Len(tasks) - 1
              /\ last'.toasts = <<"uploadFailed">>
        /\ (last'.ev = "await" /\ last'.op = "submit") =>
              /\ config' = config
              /\ PutCount(tasks') = PutCount(tasks) ]_vars

C10_Witness ==
    /\ last.ev = "abort" /\ last.status = "neterr"
    /\ config = InitialDoc /\ tasks = <<>> /\ modal = "project"

\* The image-delete requests in flight.
ImageDeletes(ts) == Cardinality({i \in 1..Len(ts) : ts[i].pc = "imgdel"})

Unread(msgs) == {i \in 1..Len(msgs) : msgs[i].read # TRUE}

\* C12: markAsRead(id) sets read on the first message with the id and leaves
\* the other messages, the message's other fields and the rest of the
\* document as they were; with no such message it changes nothing and sends
\* no PUT.
C12_MarkAsReadFrame ==
    [][ /\ (last'.ev = "call" /\ last'.op = "markAsRead") =>
              LET old == config.messages
                  new == config'.messages
                  index == findIndex(old, last'.arg.id)
              IN  /\ index # 0
                  /\ Len(new) = Len(old)
                  /\ \A k \in 1..Len(old) : k # index => new[k] = old[k]
                  /\ new[index].read = TRUE
                  /\ DOMAIN new[index] = DOMAIN old[index]
                  /\ \A f \in DOMAIN old[index] \ {"read"} : new[index][f] = old[index][f]
                  /\ OtherKeysSame(config, config', "messages")
        /\ (last'.ev = "noop" /\ last'.op = "markAsRead") =>
              /\ findIndex(config.messages, last'.arg.id) = 0
              /\ config' = config
              /\ tasks' = tasks
              /\ rendered' = rendered ]_vars

\* One message marked, the other still unread.
C12_Witness ==
    /\ last.ev = "call" /\ last.op = "markAsRead"
    /\ Len(config.messages) = 2
    /\ config.messages[2].read = TRUE
    /\ config.messages[1].read = FALSE

\* C13: markAllAsRead leaves no unread message, whatever the flags were,
\* keeps the list (ids, order, other fields) and the rest of the document, and
\* applied to its own result changes nothing.
C13_MarkAllAsRead ==
    [][ (last'.ev = "call" /\ last'.op = "markAllAsRead") =>
            LET old == config.messages
                new == config'.messages
            IN  /\ Unread(new) = {}
                /\ Len(new) = Len(old)
                /\ \A k \in 1..Len(old) :
                      /\ DOMAIN new[k] = DOMAIN old[k]
                      /\ \A f \in DOMAIN old[k] \ {"read"} : new[k][f] = old[k][f]
                /\ OtherKeysSame(config, config', "messages")
                /\ markAll(config') = config'
                /\ Unread(old) = {} => config' = config ]_vars

\* markAllAsRead called with one message read and one unread, the PUT of the
\* markAsRead still in flight.
C13_Witness ==
    /\ last.ev = "call" /\ last.op = "markAllAsRead"
    /\ Len(tasks) = 2 /\ tasks[1].op = "markAsRead" /\ tasks[1].pc = "put"
    /\ Cardinality(Unread(tasks[1].body.messages)) = 1
    /\ Unread(config.messages) = {}

\* C14: once markAsRead or markAllAsRead has completed, the badge is hidden
\* exactly when no message of the in-memory document is unread, and when
\* shown its text is the number of unread messages.
C14_BadgeCount ==
    (/\ last.op \in {"markAsRead", "markAllAsRead"}
     /\ last.ev = "return" \/ SaveFailed(last))
        => LET n == Cardinality(Unread(config.messages))
               badge == rendered.stats.badge
           IN  /\ badge.hidden <=> n = 0
               /\ ~badge.hidden => badge.text = n

\* The only message, unread, was marked: read is true and the badge hidden.
C14_Witness ==
    /\ last.ev = "return" /\ last.op = "markAsRead"
    /\ Len(config.messages) = 1
    /\ config.messages[1].read = TRUE
    /\ rendered.stats.badge.hidden

\* C15: a submitted add form has no id; the handler gives the item one, made
\* of the type and the clock's value, and addItem appends the item: the
\* collection is one longer (of length 1 when it was empty) and its last item
\* has that id and the form's fields, a skill's level as the number 80.
C15_AddAssignsId ==
    [][ (last'.ev = "call" /\ last'.op = "add") =>
            LET c == collections(last'.type)
                old == Coll(config, c)
                new == Coll(config', c)
                item == new[Len(new)]
            IN  /\ Len(new) = Len(old) + 1
                /\ \A k \in 1..Len(old) : new[k] = old[k]
                /\ "id" \in DOMAIN item
                /\ item.id # <<>>
                /\ item.id[1] = last'.type /\ item.id[2] = now'
                /\ item[TextField(last'.type)] = "b"
                /\ last'.type = "skill" => item.level = 80 ]_vars

\* A skill added to the empty skills collection.
C15_Witness ==
    /\ alone
    /\ last.ev = "call" /\ last.op = "add" /\ last.type = "skill"
    /\ Len(config.skills) = 1
    /\ config.skills[1].level = 80
    /\ config.skills[1].id = NewId("skill", now)

\* C16: a submitted edit form whose item is no longer in the collection
\* changes nothing: the in-memory document is as it was, no PUT is sent, no
\* toast is shown, nothing is rendered again and the modal stays open.
C16_UpdateMissingIsNoop ==
    [][ (/\ last'.op = "update" /\ last'.ev \in {"call", "noop"}
         /\ findIndex(Coll(config, collections(last'.type)), last'.arg.id) = 0) =>
            /\ last'.ev = "noop"
            /\ config' = config
            /\ PutCount(tasks') = PutCount(tasks)
            /\ Len(tasks') <= Len(tasks)
            /\ last'.toasts = <<>>
            /\ rendered' = rendered
            /\ modal' = modal /\ editingItem' = editingItem
            /\ page' = page ]_vars

\* The edit form of the second project was submitted after the second of two
\* overlapping deletions had removed that project.
C16_Witness ==
    /\ last.ev = "noop" /\ last.op = "update" /\ last.type = "project"
    /\ last.arg.id = InitialDoc.projects[2].id
    /\ config.projects = <<>>
    /\ modal = "project"

Requests(ts) == {i \in 1..Len(ts) : ts[i].pc \in {"put", "upload", "imgdel"}}

\* C18 as claimed: a request is sent only with a token stored, so every
\* request in flight carries the token in its Authorization header.
C18_RequestsCarryToken ==
    \A i \in Requests(tasks) : tasks[i].auth = Authorization(TRUE)

\* C19 as claimed: when init has ended, the config is the document GET
\* /api/config answered with when that answer was 2xx; else the document of
\* the static file when that request was answered 2xx; and when both failed
\* the config is null, nothing is populated and the load-failure toast is
\* shown.
C19_LoadFallback ==
    last.ev = "load" =>
        /\ last.arg.api = "ok" => config = store /\ rendered = Populated(last.type, store)
        /\ (last.arg.api # "ok" /\ last.arg.static = "ok") =>
              config = StaticDoc /\ rendered = Populated(last.type, StaticDoc)
        /\ (last.arg.api # "ok" /\ last.arg.static # "ok") =>
              /\ config = Null
              /\ rendered = Null
              /\ last.toasts = <<"loadFailed">>

\* The positions in items of the entries with the id, in collection order.
WithId(items, id) == {i \in 1..Len(items) : items[i].id = id}

\* The least position of WithId, 0 when there is none.
FirstWithId(items, id) ==
    IF WithId(items, id) = {} THEN 0
    ELSE CHOOSE i \in WithId(items, id) : \A j \in WithId(items, id) : i <= j

\* C20: ids are not checked for uniqueness.  An add gives its item the id
\* made of the type and the timestamp value, whether or not the collection
\* already has items with that id; an update by an id merges the patch into
\* the first item with the id in collection order and leaves every other
\* item, the later ones of the same id included, as it was; a delete by an id
\* removes the first item with the id and keeps the others in order.
C20_FirstOfSameId ==
    [][ (last'.ev = "call" /\ last'.op \in {"add", "update", "delete"}) =>
            LET c == collections(last'.type)
                items == Coll(config, c)
                index == FirstWithId(items, last'.arg.id)
            IN  CASE last'.op = "add" ->
                        /\ last'.arg.id = <<last'.type, now'>>
                        /\ config'[c] = Append(items, last'.arg)
                  [] last'.op = "update" ->
                        /\ index # 0
                        /\ config'[c] = [i \in 1..Len(items) |->
                                           IF i = index THEN Spread(items[i], last'.arg)
                                           ELSE items[i]]
                  [] last'.op = "delete" ->
                        /\ index # 0
                        /\ config'[c] = SubSeq(items, 1, index - 1)
                                            \o SubSeq(items, index + 1, Len(items)) ]_vars

\* An edit form with a file, opened on the id the two added projects share,
\* was submitted: the first of the two now has the uploaded image, the
\* second is as it was, and both still have the one id.
C20_Witness ==
    /\ last.ev = "call" /\ last.op = "update" /\ last.type = "project"
    /\ last.arg.id = Twins[1].id
    /\ Len(config.projects) = 4
    /\ config.projects[3] = Spread(Twins[1], [image |-> UploadedPath])
    /\ config.projects[4] = Twins[2]
    /\ config.projects[3].id = config.projects[4].id

\* The PUTs ConfigStore has answered 2xx whose handlers have not gone on yet.
RespCount(ts) == Cardinality({i \in 1..Len(ts) : ts[i].pc = "resp"})

\* C21: the in-memory document never takes anything from ConfigStore after
\* the load, so it never has a message recorded by POST /api/messages; and
\* when ConfigStore has taken a PUT of the panel, its document is the body of
\* that PUT and has none of the messages recorded since the load.
C21_LastWriterWins ==
    [][ /\ Posted(config') = {}
        /\ RespCount(tasks') > RespCount(tasks) =>
              /\ Posted(store') = {}
              /\ \E i \in 1..Len(tasks) :
                    tasks[i].pc = "put" /\ store' = tasks[i].body ]_vars

\* A message was recorded after the load, and a save of the panel has since
\* been answered 2xx and returned: ConfigStore has no recorded message.
C21_Witness ==
    /\ last.ev = "return" /\ last.saved = "yes"
    /\ Posted(store) = {}
    /\ store = config
    /\ store # InitialDoc

\* C22 as claimed: when a page has drawn its lists, every list whose
\* collection is empty or absent shows the empty-state placeholder.
C22_EmptyPlaceholder ==
    last.ev = "populate" =>
        \A c \in DOMAIN rendered :
            Len(Coll(config, c)) = 0 => rendered[c].state = "placeholder"

\* C23: a project that has an image leaves the in-memory collection only in
\* the step in which its image-delete request has settled, and while that
\* request is in flight the project is still in the collection and no PUT
\* has been sent.
C23_ImageDeleteFirst ==
    [][ /\ (last'.ev = "call" /\ last'.op = "delete" /\ last'.type = "project") =>
              LET index == FirstWithId(config.projects, last'.arg.id)
                  gone == config.projects[index]
              IN  /\ index # 0
                  /\ ("image" \in DOMAIN gone /\ gone.image # NoPath) =>
                        /\ ImageDeletes(tasks') < ImageDeletes(tasks)
                        /\ \E i \in 1..Len(tasks) :
                              tasks[i].pc = "imgdel" /\ tasks[i].path = gone.image
        /\ \A i \in 1..Len(tasks') :
              tasks'[i].pc = "imgdel" =>
                  /\ tasks'[i].index \in 1..Len(config'.projects)
                  /\ config'.projects[tasks'[i].index].id = tasks'[i].id
                  /\ PutCount(tasks') = 0 ]_vars

\* The image of the first project was deleted on the backend, the project
\* was removed in memory, the PUT failed: ConfigStore still has the project
\* with its reference to the image.
C23_Witness ==
    /\ last.ev = "return" /\ last.op = "delete" /\ last.saved = "no"
    /\ last.arg.id = InitialDoc.projects[1].id
    /\ "img0" \notin images
    /\ FirstWithId(config.projects, InitialDoc.projects[1].id) = 0
    /\ store.projects[1] = InitialDoc.projects[1]
    /\ store.projects[1].image = "img0"

\* C24 as claimed: a step of deleteItem that removes something removes only
\* items of the id the call was given; every item of another id is in the
\* collection after the step as often as before it.
C24_DeleteOnlyGivenId ==
    [][ (last'.ev = "call" /\ last'.op = "delete") =>
            LET c == collections(last'.type)
            IN  \A i \in 1..Len(Coll(config, c)) :
                    Coll(config, c)[i].id # last'.arg.id =>
                        Cardinality(WithId(Coll(config', c), Coll(config, c)[i].id))
                          = Cardinality(WithId(Coll(config, c), Coll(config, c)[i].id)) ]_vars

\* The submissions whose upload was answered 2xx and whose handler has not
\* gone on yet.
UploadedOk(ts) == {i \in 1..Len(ts) : ts[i].pc = "uploaded" /\ ts[i].status = "ok"}

\* C25 as claimed: when the handler of a submission made from an edit form
\* goes on after its upload, it ends in updateItem for the item the form was
\* opened on and appends nothing.
C25_EditSubmitUpdates ==
    [][ (/\ Cardinality(UploadedOk(tasks')) < Cardinality(UploadedOk(tasks))
         /\ \A i \in UploadedOk(tasks) : tasks[i].form # Null) =>
            /\ last'.op = "update"
            /\ \E i \in UploadedOk(tasks) : last'.arg.id = tasks[i].form.id
            /\ \A type \in Types :
                  Len(Coll(config', collections(type))) = Len(Coll(config, collections(type))) ]_vars

\* The saves under way: PUTs in flight and answered PUTs whose handler has
\* not gone on.
Saves(ts) == PutCount(ts) + RespCount(ts)

\* C26 as claimed: when a save has returned true and no other save is under
\* way, ConfigStore's document is the in-memory document.
C26_StoredAfterSave ==
    [][ (/\ last'.ev = "return" /\ last'.saved = "yes"
         /\ Saves(tasks') = 0 /\ page' = "admin") =>
            store' = config' ]_vars

\* C26 amended: with the panel used one operation at a time (no save starts
\* while another is under way), a PUT taken by ConfigStore leaves it with
\* the whole in-memory document, and so does every save that returns true,
\* whatever saves failed before it.
C26_StoredAfterLoneSave ==
    [][ alone =>
            /\ RespCount(tasks') > RespCount(tasks) => store' = config'
            /\ (last'.ev = "return" /\ last'.saved = "yes" /\ page' = "admin") =>
                  store' = config' ]_vars

\* One operation at a time: an add whose save failed, then the same form
\* submitted again and saved; ConfigStore has both new items.
C26_Witness ==
    /\ alone /\ left = MaxSeqEvents - 3
    /\ last.ev = "return" /\ last.op = "add" /\ last.saved = "yes"
    /\ store = config
    /\ Len(Coll(store, collections(last.type)))
          = Len(Coll(InitialDoc, collections(last.type))) + 2

\* C27: with the panel used one operation at a time, an add whose save
\* failed leaves the modal open on the add form (editingItem null) and the
\* item in the collection; every submission of that form, the first and each
\* one after a failure alike, appends one item with the id made at that
\* submission; and the save that succeeds leaves ConfigStore with the
\* collection as it is in memory, every item of the failed submissions in it.
C27_FailedAddsPileUp ==
    [][ LET c == collections(last'.type)
            old == Coll(config, c)
            new == Coll(config', c)
        IN  /\ (last'.op = "add" /\ last'.ev = "call") =>
                  /\ editingItem = Null
                  /\ new = Append(old, last'.arg)
                  /\ last'.arg.id = <<last'.type, now'>>
            /\ (last'.op = "add" /\ last'.ev = "return" /\ last'.saved = "no") =>
                  /\ modal' = last'.type /\ editingItem' = Null
                  /\ new = old
                  /\ new[Len(new)] = last'.arg
                  /\ store' = store
            /\ (last'.op = "add" /\ last'.ev = "return" /\ last'.saved = "yes") =>
                  /\ modal' = "none"
                  /\ new = old
                  /\ Coll(store', c) = new ]_vars

\* The add form of a skill was opened once and submitted three times: two
\* saves failed, the third succeeded; memory and ConfigStore have the three
\* new skills after the initial one.
C27_Witness ==
    /\ alone /\ left = MaxSeqEvents - 4
    /\ last.op = "add" /\ last.ev = "return" /\ last.saved = "yes" /\ last.type = "skill"
    /\ Len(config.skills) = Len(InitialDoc.skills) + 3
    /\ store.skills = config.skills
    /\ modal = "none"

\* C28: savePersonalInfo leaves every key of the document but personal_info
\* and social_links as it was; personal_info keeps the fields the form does
\* not carry and takes the form's values for the others; social_links is
\* made of the six keys of the form and nothing else.
C28_PersonalInfoFrame ==
    [][ (last'.op = "savePersonalInfo" /\ last'.ev = "call") =>
            /\ DOMAIN config' = DOMAIN config
            /\ \A k \in DOMAIN config \ {"personal_info", "social_links"} :
                  config'[k] = config[k]
            /\ DOMAIN config'.personal_info = DOMAIN config.personal_info \cup PersonalFields
            /\ \A f \in DOMAIN config.personal_info \ PersonalFields :
                  config'.personal_info[f] = config.personal_info[f]
            /\ DOMAIN config'.social_links =
                  {"github", "linkedin", "twitter", "instagram", "youtube", "dribbble"} ]_vars

\* Personal info was saved on the initial document: the name is the form's,
\* profile_image is kept, and the facebook link, which the portfolio has an
\* icon for, is gone from social_links.
C28_Witness ==
    /\ last.op = "savePersonalInfo" /\ last.ev = "call"
    /\ config.personal_info.name = "b"
    /\ config.personal_info.profile_image = InitialDoc.personal_info.profile_image
    /\ "facebook" \in DOMAIN InitialDoc.social_links \cap iconMap
    /\ "facebook" \notin DOMAIN config.social_links
    /\ config.projects = InitialDoc.projects

\* The submissions of the contact form under way.
Posts(ts) == {i \in 1..Len(ts) : ts[i].pc \in {"post", "posted"}}

\* C29: at most one submission of the contact form is under way, and while
\* one is the button is disabled; when the handler goes on after the answer,
\* whatever it was, the button is enabled with its original label, and the
\* fields are reset for a 2xx answer and only then; and a disabled button is
\* eventually enabled again with its original label.
C29_ContactButton ==
    /\ [](Cardinality(Posts(tasks)) <= 1)
    /\ [](rendered.button.disabled <=> Posts(tasks) # {})
    /\ [][ Cardinality(Posts(tasks')) < Cardinality(Posts(tasks)) =>
              /\ rendered'.button = [disabled |-> FALSE, label |-> OriginalText]
              /\ \E i \in Posts(tasks) :
                    /\ tasks[i].pc = "posted"
                    /\ tasks[i].status = "ok" => rendered'.fields = "empty"
                    /\ tasks[i].status # "ok" => rendered'.fields = rendered.fields ]_vars
    /\ (rendered.button.disabled ~>
            rendered.button = [disabled |-> FALSE, label |-> OriginalText])

\* A submission of the filled form was answered with a failure: the button
\* is enabled with its original label and the fields are as typed.
C29_Witness ==
    /\ page = "portfolio"
    /\ last.ev = "return" /\ last.op = "contact" /\ last.status \in {"bad", "neterr"}
    /\ rendered.button = [disabled |-> FALSE, label |-> OriginalText]
    /\ rendered.fields = "filled"
    /\ tasks = <<>>

\* C30 as claimed: at every step of the typewriter charIndex is between 0
\* and the length of the current word, for every title, the empty one
\* included.
C30_CharIndexInWord ==
    "charIndex" \in DOMAIN rendered =>
        /\ rendered.charIndex >= 0
        /\ rendered.charIndex
              <= Len(words(config.personal_info.title)[rendered.wordIndex + 1])

====
